---- MODULE Spec2Model ----
(***************************************************************************)
(* nonencm: the download pipeline of MusicManager.download_song            *)
(* (app/core.py) and the playlist loop of UI.menu_search (app/ui.py); the  *)
(* session store of MusicManager with the login menus of UI; get_filename, *)
(* UI.parse_url and the retry policy of configure_session on their own.    *)
(* Each part has its own specification over the same variables; the parts  *)
(* it does not model stay at rest.                                         *)
(*                                                                         *)
(* Strings are sequences of one-character strings.  A response of the      *)
(* remote service is a record with the keys the code reads; a call that    *)
(* raises is the record Fault.                                             *)
(***************************************************************************)
EXTENDS Integers, Sequences, FiniteSets, TLC

(* ------------------------------ bounds -------------------------------- *)
MaxRequests == 2    \* download_song calls in one run of the front-end
BodyChunks  == 2    \* chunks of an audio body (iter_content)
MaxPolls    == 3    \* login_qr_check calls of one menu_login_qr
MaxStrLen   == 2    \* length of a title, artist or album under sanitization

TrackIds == {1, 2}  \* the tracks of the catalog

(* ------------------------------ strings ------------------------------- *)
Mp3  == <<"m", "p", "3">>
Flac == <<"f", "l", "a", "c">>
Unknown == <<"U", "n", "k", "n", "o", "w", "n">>
Sep  == <<" ", "-", " ">>
Digit(n) == IF n = 1 THEN "1" ELSE IF n = 2 THEN "2" ELSE IF n = 3 THEN "3" ELSE "9"
IdStr(n) == <<Digit(n)>>

\* ", ".join(names)
RECURSIVE Join(_)
Join(names) ==
    IF names = <<>> THEN <<>>
    ELSE IF Len(names) = 1 THEN names[1]
    ELSE names[1] \o <<",", " ">> \o Join(Tail(names))

\* [ar["name"] for ar in song_info["ar"]]
ArtistNames(ar) == [i \in 1..Len(ar) |-> ar[i].name]

\* the character class of re.sub(r'[\\/*?:"<>|]', "", s)
ForbiddenChars == {"\\", "/", "*", "?", ":", "\"", "<", ">", "|"}
\* Only the first occurrence is removed (count=1).
re_subMutant(s) ==
    IF \E i \in 1..Len(s) : s[i] \in ForbiddenChars
    THEN LET i == CHOOSE i \in 1..Len(s) :
                     /\ s[i] \in ForbiddenChars
                     /\ \A j \in 1..(i-1) : s[j] \notin ForbiddenChars
         IN  SubSeq(s, 1, i-1) \o SubSeq(s, i+1, Len(s))
    ELSE s
re_sub(s) == SelectSeq(s, LAMBDA c : c \notin ForbiddenChars)
\* The strings a title, artist or album is drawn from.
Alphabet == ForbiddenChars \cup {"a"}
Strings == UNION {[1..n -> Alphabet] : n \in 0..MaxStrLen}

(* ------------------------- the remote service ------------------------- *)
Fault == [raised |-> TRUE]
Raised(res) == "raised" \in DOMAIN res
Has(res, key) == key \in DOMAIN res
NoUrl == <<>>                      \* a null or empty url: falsy in Python
AudioUrl == <<"h">>                \* a playable url
CoverUrl == <<"c">>

\* What the catalog knows of a track: title, artists, album.
CatalogName(id) == IF id = 1 THEN <<"a">> ELSE <<"b", "?", Digit(id)>>
CatalogAr(id) ==
    IF id = 1 THEN <<[name |-> <<"x">>]>>
    ELSE <<[name |-> <<"x">>], [name |-> <<"y", "/">>]>>
\* track 1 has a cover, the cover url of track 2 is null
CatalogSong(id) ==
    [name |-> CatalogName(id), ar |-> CatalogAr(id),
     al |-> [name |-> <<"L">>, picUrl |-> IF id = 1 THEN CoverUrl ELSE NoUrl],
     id |-> id]
\* The container the service reports: the legacy endpoint omits it for track 1
\* and reports flac for track 2, the standard endpoint reports mp3.
CatalogType(id, api) ==
    IF api = "GetTrackAudio" THEN Mp3 ELSE IF id = 1 THEN <<>> ELSE Flac

\* Responses of track.GetTrackDetail(song_id).
DetailResponses(id) ==
    {Fault, [code |-> 400], [code |-> 200], [code |-> 200, songs |-> <<>>],
     [code |-> 200, songs |-> <<CatalogSong(id)>>]}

\* Responses of track.GetTrackAudio / track.GetTrackAudioV1.
AudioResponses(id, api) ==
    {Fault, [code |-> 400, data |-> <<>>], [code |-> 200, data |-> <<>>],
     [code |-> 200, data |-> <<[url |-> NoUrl, type |-> <<>>]>>],
     [code |-> 200, data |-> <<[url |-> AudioUrl, type |-> CatalogType(id, api)]>>]}

\* Responses of track.GetTrackLyrics.
LyricsResponses ==
    {Fault, [code |-> 400], [code |-> 200],
     [code |-> 200, lrc |-> [lyric |-> <<>>]],
     [code |-> 200, lrc |-> [lyric |-> <<"l">>]]}

(* --------------------------- configuration ---------------------------- *)
AudioQualities   == {"standard", "exhigh", "lossless", "hires"}
PreferredFormats == {"auto", "mp3", "flac"}

\* A template is the parsed form of the format string: literal text,
\* replacement fields, and "bad" for text str.format cannot parse.
Lit(s)   == [lit |-> s]
Field(f) == [field |-> f]
Bad      == [bad |-> TRUE]
DefaultTemplate == <<Field("title"), Lit(Sep), Field("artist")>>
\* "{album}-{id}", "{title}.flac", "{title}{year}" (no such keyword) and
\* "{title" (unbalanced brace)
AlbumTemplate     == <<Field("album"), Lit(<<"-">>), Field("id")>>
DottedTemplate    == <<Field("title"), Lit(<<".">> \o Flac)>>
UnknownTemplate   == <<Field("title"), Field("year")>>
MalformedTemplate == <<Bad>>
Templates ==
    {DefaultTemplate, AlbumTemplate, DottedTemplate, UnknownTemplate, MalformedTemplate}

\* The defaults of download_song's config_manager.get calls (lines 253-258).
DefaultConfig ==
    [quality |-> "exhigh", preferred_format |-> "auto", template |-> DefaultTemplate,
     download_lyrics |-> FALSE, use_download_api |-> FALSE, overwrite |-> FALSE]
AllConfigs ==
    [quality : AudioQualities, preferred_format : PreferredFormats,
     template : Templates, download_lyrics : BOOLEAN,
     use_download_api : BOOLEAN, overwrite : BOOLEAN]
\* The configurations of a run of Spec: every setting of the three switches,
\* with the default quality settings.
SwitchConfigs ==
    {c \in AllConfigs : /\ c.quality = DefaultConfig.quality
                        /\ c.preferred_format = DefaultConfig.preferred_format
                        /\ c.template = DefaultConfig.template}
\* The configurations of a run of SpecQuality: every quality and preferred
\* format, with the switches at their defaults.
QualityConfigs ==
    {c \in AllConfigs : /\ c.download_lyrics = DefaultConfig.download_lyrics
                        /\ c.use_download_api = DefaultConfig.use_download_api
                        /\ c.overwrite = DefaultConfig.overwrite
                        /\ c.template = DefaultConfig.template}
\* The configurations of a run of SpecTemplate: every template, everything
\* else at its default.
TemplateConfigs ==
    {c \in AllConfigs : \A k \in DOMAIN c \ {"template"} : c[k] = DefaultConfig[k]}

(* ------------------------- quality negotiation ------------------------ *)
\* A slip in the flac branch: "high" for "exhigh", so exhigh is not raised.
NegotiateQualityMutant(q, preferred_format) ==
    IF preferred_format = "mp3"
    THEN (IF q \in {"lossless", "hires"} THEN "exhigh" ELSE q)
    ELSE IF preferred_format = "flac"
    THEN (IF q \in {"standard", "high"} THEN "lossless" ELSE q)
    ELSE q
\* download_song, "Adjust quality based on preferred format".
NegotiateQuality(q, preferred_format) ==
    IF preferred_format = "mp3"
    THEN (IF q \in {"lossless", "hires"} THEN "exhigh" ELSE q)
    ELSE IF preferred_format = "flac"
    THEN (IF q \in {"standard", "exhigh"} THEN "lossless" ELSE q)
    ELSE q

(* ------------------------------ filenames ----------------------------- *)
KnownFields == {"title", "artist", "artists", "album", "track", "id"}

safe_title(song_info)   == re_sub(song_info.name)
safe_artists(song_info) == re_sub(Join(ArtistNames(song_info.ar)))
safe_album(song_info)   == re_sub(song_info.al.name)

\* the keyword arguments of template.format(...)
FieldValue(f, song_info) ==
    CASE f = "title"                  -> safe_title(song_info)
      [] f \in {"artist", "artists"}  -> safe_artists(song_info)
      [] f = "album"                  -> safe_album(song_info)
      [] f = "track"                  -> safe_title(song_info)
      [] f = "id"                     -> IdStr(song_info.id)

\* template.format raises on an unknown field or unparsable text
FormatOk(template) ==
    \A i \in 1..Len(template) :
        \/ Has(template[i], "lit")
        \/ Has(template[i], "field") /\ template[i].field \in KnownFields

RECURSIVE Format(_, _)
Format(template, song_info) ==
    IF template = <<>> THEN <<>>
    ELSE (IF Has(Head(template), "lit") THEN Head(template).lit
          ELSE FieldValue(Head(template).field, song_info))
         \o Format(Tail(template), song_info)

\* The fallback built from the raw title and artists, not the sanitized ones.
get_filenameMutant(template, song_info, e) ==
    IF FormatOk(template)
    THEN Format(template, song_info) \o <<".">> \o e
    ELSE song_info.name \o Sep \o Join(ArtistNames(song_info.ar)) \o <<".">> \o e
\* get_filename, lines 214-242
get_filename(template, song_info, e) ==
    IF FormatOk(template)
    THEN Format(template, song_info) \o <<".">> \o e
    ELSE safe_title(song_info) \o Sep \o safe_artists(song_info) \o <<".">> \o e

\* pathlib: PurePath.suffix and PurePath.with_suffix on the file name
LastDot(s) ==
    IF \E i \in 1..Len(s) : s[i] = "."
    THEN CHOOSE i \in 1..Len(s) : s[i] = "." /\ \A j \in (i+1)..Len(s) : s[j] # "."
    ELSE 0
Suffix(s) ==
    IF LastDot(s) > 1 /\ LastDot(s) < Len(s) THEN SubSeq(s, LastDot(s), Len(s)) ELSE <<>>
WithSuffix(s, suf) == SubSeq(s, 1, Len(s) - Len(Suffix(s))) \o suf
Lower(c) ==
    CASE c = "M" -> "m" [] c = "P" -> "p" [] c = "F" -> "f" [] c = "L" -> "l"
      [] c = "A" -> "a" [] c = "C" -> "c" [] c = "U" -> "u" [] OTHER -> c
lower(s) == [i \in 1..Len(s) |-> Lower(s[i])]

(* --------------------------- files on disk ---------------------------- *)
\* An audio file: whether its body is complete, and its tag block.
NewFile == [complete |-> FALSE, tags |-> <<>>]
Exists(files, path) == path \in DOMAIN files
Put(files, path, content) == (path :> content) @@ files

\* download_cover: the bytes of the cover, or nothing.
CoverResults == {"fault", "status", "ok"}
NoBytes == <<>>
download_cover(cover_url, net) ==
    IF cover_url = NoUrl \/ net # "ok" THEN NoBytes ELSE <<"j">>

\* embed_metadata: the file after tagging; any fault leaves the file as it was.
Tags(song_info, cover_data) ==
    [title |-> song_info.name, artist |-> ArtistNames(song_info.ar),
     album |-> song_info.al.name, cover |-> cover_data]
embed_metadata(files, path, song_info, cover_data, codec_ok) ==
    IF ~codec_ok THEN files
    ELSE IF lower(Suffix(path)) \in {<<".">> \o Mp3, <<".">> \o Flac}
    THEN [files EXCEPT ![path].tags = <<Tags(song_info, cover_data)>>]
    ELSE files

\* The test of line 155 left out: the file is written even without text.
download_lyricsMutant(files, path, res, io_ok) ==
    IF Raised(res) THEN files
    ELSE IF res.code # 200 THEN files
    ELSE LET lrc_content == IF Has(res, "lrc") /\ Has(res.lrc, "lyric")
                            THEN res.lrc.lyric ELSE <<>>
         IN  IF io_ok
             THEN Put(files, WithSuffix(path, <<".", "l", "r", "c">>), [lyric |-> lrc_content])
             ELSE files
\* download_lyrics: the files after the lyrics call.
download_lyrics(files, path, res, io_ok) ==
    IF Raised(res) THEN files
    ELSE IF res.code # 200 THEN files
    ELSE LET lrc_content == IF Has(res, "lrc") /\ Has(res.lrc, "lyric")
                            THEN res.lrc.lyric ELSE <<>>
         IN  IF lrc_content # <<>> /\ io_ok
             THEN Put(files, WithSuffix(path, <<".", "l", "r", "c">>), [lyric |-> lrc_content])
             ELSE files

(* ----------------------- decisions of download_song ------------------- *)
\* line 272: the success branch of descriptor resolution
DetailOk(res) == res.code = 200 /\ Has(res, "songs")
\* line 276: "Mock info if fail"
MockInfo(id, name, artist) ==
    [name |-> name, ar |-> <<[name |-> artist]>>, al |-> [name |-> Unknown], id |-> id]
\* lines 289 and 294: no audio entry in the response
NoAudio(res) == res.code # 200 \/ res.data = <<>>
\* line 291: the fallback is tried when the first call was the legacy one
WantFallback(res, use_download_api) == NoAudio(res) /\ ~use_download_api
\* The check of line 300 left out: every url counts as playable.
PlayableMutant(u) == TRUE
\* line 300: "if not url"
Playable(u) == u # NoUrl
\* The default of line 305 left out.
ExtOfMutant(type) == type
\* line 305: "if not ext: ext = mp3"
ExtOf(type) == IF type = <<>> THEN Mp3 ELSE type
\* The overwrite switch read the wrong way round.
SkipExistingMutant(exists, overwrite) == exists /\ overwrite
\* line 310: the existence/overwrite policy
SkipExisting(exists, overwrite) == exists /\ ~overwrite
\* line 324: the guard of the metadata stage
EmbedGuard(res) == res.code = 200

(* --------------------------- the session store ------------------------ *)
\* session.pyncm: absent, a dump written by save_session, or content that
\* LoadSessionFromString cannot decode.
NoFile  == [absent |-> TRUE]
Corrupt == [corrupt |-> TRUE]
Users == {"phone", "anon", "qr"}
\* pyncm.Session(): no login state, the default transport adapters
NewSession == [user |-> "", mounted |-> FALSE]
\* The dump carries the login state of the session, not its adapters.
DumpSessionAsString(s) == [dump |-> s.user]
LoadSessionFromString(d) == [user |-> d.dump, mounted |-> FALSE]
SessionFiles == {NoFile, Corrupt} \cup {DumpSessionAsString([user |-> u]) : u \in Users}

\* configure_session: the retry adapter is mounted on the current session
configure_session(s) == [s EXCEPT !.mounted = TRUE]
\* is_logged_in: self.session_file.exists()
is_logged_in(file) == file # NoFile
\* The finally clause of line 42 left out: a failed load mounts nothing.
load_sessionMutant(file, s, readable) ==
    IF file = NoFile THEN [session |-> s, failed |-> FALSE]
    ELSE IF readable /\ Has(file, "dump")
    THEN [session |-> configure_session(LoadSessionFromString(file)), failed |-> FALSE]
    ELSE [session |-> s, failed |-> TRUE]
\* load_session: the current session afterwards, and whether the except
\* branch ran.  `readable` is whether open/read of the file succeeds.
load_session(file, s, readable) ==
    IF file = NoFile THEN [session |-> s, failed |-> FALSE]
    ELSE IF readable /\ Has(file, "dump")
    THEN [session |-> configure_session(LoadSessionFromString(file)), failed |-> FALSE]
    ELSE [session |-> configure_session(s), failed |-> TRUE]
\* save_session: the file afterwards; a failing open leaves it as it was
save_session(file, s, io_ok) == IF io_ok THEN DumpSessionAsString(s) ELSE file
\* the session once the service accepted a login
LoggedIn(s, u) == [s EXCEPT !.user = u]

\* Responses of login.LoginViaCellphone, login.LoginViaAnonymousAccount,
\* login.LoginQrcodeUnikey and login.LoginQrcodeCheck.
CellphoneResponses == {Fault, [code |-> 200], [code |-> 400]}
AnonymousResponses == {Fault, [code |-> 200]}
UnikeyResponses == {Fault, [code |-> 400], [code |-> 200, unikey |-> "k"]}
QrCodes == {800, 801, 802, 803}
QrResponses == {Fault, [code |-> 400]} \cup {[code |-> c] : c \in QrCodes}
\* The break on an expired code left out.
QrLeavesMutant(code) == code = 803
\* menu_login_qr, lines 154-164: the codes that break out of the loop
QrLeaves(code) == code \in {800, 803}

(* ------------------------------ parse_url ----------------------------- *)
\* What the user types at the search prompt, by its parts: the host ("" for
\* a plain keyword), whether the route follows a "#" (the address the web
\* player shows: https://music.163.com/#/song?id=1), the route, the value of
\* the id parameter ("" when there is none) and the value of one more
\* parameter, as in "&from=playlist" ("" when there is none).
Hosts  == {"", "example.com", "music.163.com"}
Routes == {"/song", "/playlist", "/album"}
Inputs ==
    [host : Hosts, hash : BOOLEAN, route : Routes, id : {"", "1", "2"},
     extra : {"", "song", "playlist"}]
None == "None"
\* `word in url` for the words parse_url looks for
InUrl(word, u) ==
    CASE word = "music.163.com" -> u.host = "music.163.com"
      [] word = "playlist"      -> u.route = "/playlist" \/ u.extra = "playlist"
      [] word = "song"          -> u.route = "/song" \/ u.extra = "song"
\* urlparse: what follows "#" is the fragment, so the path is "/" and the
\* query is empty when the route follows a "#"
urlparse(u) ==
    [path  |-> IF u.hash THEN "/" ELSE u.route,
     query |-> IF u.hash \/ u.id = "" THEN <<>> ELSE <<u.id>>]
\* parse_qs(parsed.query): whether "id" is a key, and its first value
HasIdParam(u) == urlparse(u).query # <<>>
IdParam(u) == urlparse(u).query[1]
\* lines 76-80: the look at parsed.path when the first tests returned nothing
PathFallback(u) ==
    IF ~HasIdParam(u) THEN <<None, None>>
    ELSE IF urlparse(u).path = "/playlist" THEN <<"playlist", IdParam(u)>>
    ELSE IF urlparse(u).path = "/song" THEN <<"song", IdParam(u)>>
    ELSE <<None, None>>
\* parse_url, lines 62-83.  No id value of Inputs contains "playlist", so the
\* second disjunct of line 71 is false.
parse_url(u) ==
    IF ~InUrl("music.163.com", u) THEN <<None, None>>
    ELSE IF InUrl("playlist", u)
    THEN (IF HasIdParam(u) THEN <<"playlist", IdParam(u)>> ELSE PathFallback(u))
    ELSE IF InUrl("song", u)
    THEN (IF HasIdParam(u) THEN <<"song", IdParam(u)>> ELSE PathFallback(u))
    ELSE PathFallback(u)
\* menu_search, lines 88-111: the branch taken for a parse_url result
Handling(parsed) ==
    IF parsed[1] = "playlist" THEN "playlist"
    ELSE IF parsed[1] = "song" THEN "song"
    ELSE "keyword"

(* ---------------------------- retry adapter --------------------------- *)
\* Retry(total=5, backoff_factor=1, status_forcelist=[500, 502, 503, 504])
RetryTotal == 5
BackoffFactor == 1
StatusForcelist == {500, 502, 503, 504}
\* the statuses a server answers one attempt with
ServerStatuses == StatusForcelist \cup {200, 404}
\* A backoff that grows by the factor, not by doubling.
BackoffMutant(n) == IF n <= 1 THEN 0 ELSE BackoffFactor * n
\* The sleep before the attempt that follows n failed ones: none after the
\* first failure, then backoff_factor * 2^(n-1).
Backoff(n) == IF n <= 1 THEN 0 ELSE BackoffFactor * 2^(n-1)
\* total counts retries: it is spent when more than `total` attempts failed
Exhausted(failed) == failed > RetryTotal

(* ------------------------------- state -------------------------------- *)
VARIABLES
    cfg,          \* the configuration read through config_manager.get
    fs,           \* the files of the output directory: path -> content
    ui_pc,        \* UI: "main" (run), "search" (menu_search), "playlist", "exited"
    tracks,       \* the playlist being processed (menu_search, line 94)
    idx,          \* the position of the for loop over tracks (line 100)
    attempted,    \* ids of the playlist's tracks download_song was called for
    ndl,          \* download_song calls made so far
    pc,           \* the position inside download_song; "idle" outside it
    song_id, song_name, artist_name,      \* the arguments of download_song
    quality, detail_res, song_info, audio_res, url, ext, filepath,
    written,      \* chunks of the body written so far (the loop of line 317)
    outcome,      \* how download_song ended: the log line it wrote, or "raised"
    calls,        \* the collaborator calls of this download_song, in order
    first_res,    \* the response of the first audio resolution call, kept
                  \* until the resolution is decided (Select)
    fs0,          \* the files when this download_song was entered
    lyrics_res,   \* the lyrics call of this download_song: its response and
                  \* whether the .lrc file could be written
    session_file, \* the content of session.pyncm, or NoFile
    session,      \* the current pyncm session of the process
    sess_pc,      \* "start" (before MusicManager()), "loaded" (between
                  \* lines 21 and 22 of __init__), "main", "qr"
    op,           \* the last Session Store operation that ran
    op_result,    \* what it gave its caller: "true", "false", "key", "code",
                  \* "none" or "raised"
    last_change,  \* the last login or logout that reported success
    save_failed,  \* save_session caught an exception in the last operation
    load_failed,  \* load_session caught an exception at the last start
    qr_code,      \* the code of the last login_qr_check response
    polls,        \* login_qr_check calls of the current menu_login_qr
    saves,        \* save_session calls of the current menu_login_qr
    login_res,    \* the response of the last login_phone / login_anonymous
    arg, result,  \* the input and the value of a function under test
    statuses,     \* the statuses the server gave to the attempts of one call
    sleeps,       \* the backoff slept before each re-sent attempt
    net_pc        \* "send", "backoff", "done" or "error"

uiVars == <<ui_pc, tracks, idx, attempted>>
argVars == <<song_id, song_name, artist_name>>
sessVars == <<session_file, session, sess_pc, op, op_result, last_change,
              save_failed, load_failed, qr_code, polls, saves, login_res>>
fnVars == <<arg, result>>
netVars == <<statuses, sleeps, net_pc>>
\* what the download pipeline and its front-end never touch
extVars == <<sessVars, fnVars, netVars>>
locVars == <<quality, detail_res, song_info, audio_res, url, ext, filepath, written>>
vars == <<cfg, fs, ui_pc, tracks, idx, attempted, ndl, pc, song_id, song_name,
          artist_name, quality, detail_res, song_info, audio_res, url, ext,
          filepath, written, outcome, calls, first_res, fs0, lyrics_res,
          session_file, session, sess_pc, op, op_result, last_change,
          save_failed, load_failed, qr_code, polls, saves, login_res, arg, result,
          statuses, sleeps, net_pc>>

Unset == [unset |-> TRUE]          \* a local not yet assigned
NoFiles == [p \in {} |-> NewFile]

InitLocals ==
    /\ quality = "" /\ detail_res = Unset /\ song_info = Unset /\ audio_res = Unset
    /\ url = <<>> /\ ext = <<>> /\ filepath = <<>> /\ written = 0
    /\ outcome = "" /\ calls = <<>> /\ first_res = Unset /\ lyrics_res = Unset

\* The session store at rest: no session file, a configured fresh session.
InitSessionIdle ==
    /\ session_file = NoFile /\ session = configure_session(NewSession)
    /\ sess_pc = "main" /\ op = "" /\ op_result = "none" /\ last_change = "none"
    /\ save_failed = FALSE /\ load_failed = FALSE
    /\ qr_code = 0 /\ polls = 0 /\ saves = 0 /\ login_res = Unset
InitFnIdle == arg = <<>> /\ result = <<>>
InitNetIdle == statuses = <<>> /\ sleeps = <<>> /\ net_pc = "done"

\* The download pipeline at rest.
InitPipe ==
    /\ fs = NoFiles /\ fs0 = NoFiles
    /\ ui_pc = "main" /\ tracks = <<>> /\ idx = 0 /\ attempted = <<>>
    /\ ndl = 0 /\ pc = "idle"
    /\ song_id = 0 /\ song_name = <<>> /\ artist_name = <<>>
    /\ InitLocals

InitRest == InitSessionIdle /\ InitFnIdle /\ InitNetIdle /\ InitPipe

Init == cfg \in SwitchConfigs /\ InitRest
InitQuality == cfg \in QualityConfigs /\ InitRest
InitTemplate == cfg \in TemplateConfigs /\ InitRest

(* ------------------------------ front-end ----------------------------- *)
\* A track of a playlist as the service returns it; a malformed one lacks "ar".
PlaylistTrack(id, wellformed) ==
    IF wellformed THEN [id |-> id, name |-> CatalogName(id), ar |-> CatalogAr(id)]
    ELSE [id |-> id, name |-> CatalogName(id)]
PlaylistTracks == {PlaylistTrack(id, TRUE) : id \in TrackIds} \cup {PlaylistTrack(1, FALSE)}
Playlists == UNION {[1..n -> PlaylistTracks] : n \in 1..MaxRequests}

\* entering download_song(id, name, artist)
Call(id, name, artist) ==
    /\ ndl' = ndl + 1
    /\ pc' = "mkdir"
    /\ song_id' = id /\ song_name' = name /\ artist_name' = artist
    /\ quality' = "" /\ detail_res' = Unset /\ song_info' = Unset
    /\ audio_res' = Unset /\ url' = <<>> /\ ext' = <<>> /\ filepath' = <<>>
    /\ written' = 0
    /\ outcome' = "" /\ calls' = <<>> /\ first_res' = Unset /\ lyrics_res' = Unset
    /\ fs0' = fs
    /\ UNCHANGED <<extVars, cfg, fs>>

\* UI.run, line 42: "Search & Download"
SelectSearch ==
    /\ ui_pc = "main" /\ pc = "idle"
    /\ ui_pc' = "search"
    /\ UNCHANGED <<extVars, cfg, fs, tracks, idx, attempted, ndl, pc, argVars, locVars,
                   outcome, calls, first_res, fs0, lyrics_res>>

\* UI.run, line 40: "Exit"
Exit ==
    /\ ui_pc = "main" /\ pc = "idle"
    /\ ui_pc' = "exited"
    /\ UNCHANGED <<extVars, cfg, fs, tracks, idx, attempted, ndl, pc, argVars, locVars,
                   outcome, calls, first_res, fs0, lyrics_res>>

\* menu_search, line 133: the prompt is cancelled
CancelSearch ==
    /\ ui_pc = "search" /\ pc = "idle"
    /\ ui_pc' = "main"
    /\ UNCHANGED <<extVars, cfg, fs, tracks, idx, attempted, ndl, pc, argVars, locVars,
                   outcome, calls, first_res, fs0, lyrics_res>>

\* menu_search, lines 92-99: a playlist URL whose tracks were found
EnterPlaylist ==
    /\ ui_pc = "search" /\ pc = "idle"
    /\ \E tr \in Playlists :
        /\ ndl + Len(tr) <= MaxRequests
        /\ tracks' = tr /\ idx' = 1 /\ attempted' = <<>>
    /\ ui_pc' = "playlist"
    /\ UNCHANGED <<extVars, cfg, fs, ndl, pc, argVars, locVars, outcome, calls,
                   first_res, fs0, lyrics_res>>

\* menu_search, lines 100-102: one iteration of the loop over the tracks.
\* track["ar"] of a malformed track raises KeyError, which is no
\* CancelledError: it leaves menu_search and is logged by UI.run (line 59).
PlaylistTrackStep ==
    /\ ui_pc = "playlist" /\ pc = "idle" /\ idx <= Len(tracks)
    /\ LET track == tracks[idx] IN
       IF Has(track, "ar")
       THEN /\ Call(track.id, track.name, Join(ArtistNames(track.ar)))
            /\ attempted' = Append(attempted, track.id)
            /\ UNCHANGED <<ui_pc, tracks, idx>>
       ELSE /\ ui_pc' = "main" /\ tracks' = <<>> /\ idx' = 0 /\ attempted' = <<>>
            /\ UNCHANGED <<extVars, cfg, fs, ndl, pc, argVars, locVars,
                           outcome, calls, first_res, fs0, lyrics_res>>

\* menu_search, lines 103-104: "Playlist download complete."
PlaylistDone ==
    /\ ui_pc = "playlist" /\ pc = "idle" /\ idx > Len(tracks)
    /\ ui_pc' = "search" /\ tracks' = <<>> /\ idx' = 0 /\ attempted' = <<>>
    /\ UNCHANGED <<extVars, cfg, fs, ndl, pc, argVars, locVars, outcome, calls,
                   first_res, fs0, lyrics_res>>

\* menu_search, lines 106-109: a song URL
EnterSongUrl ==
    /\ ui_pc = "search" /\ pc = "idle" /\ ndl < MaxRequests
    /\ \E id \in TrackIds :
        Call(id, <<"S", "o", "n", "g", "_">> \o IdStr(id), Unknown)
    /\ UNCHANGED uiVars

\* menu_search, lines 111-131: a keyword, and a song chosen from the results
EnterKeyword ==
    /\ ui_pc = "search" /\ pc = "idle" /\ ndl < MaxRequests
    /\ \E id \in TrackIds :
        Call(id, CatalogName(id), Join(ArtistNames(CatalogAr(id))))
    /\ UNCHANGED uiVars

\* download_song is left.  An exception it raised is no CancelledError: it
\* leaves menu_search and is logged by UI.run, which shows the main menu again.
Return ==
    /\ pc = "ret"
    /\ pc' = "idle"
    /\ IF outcome = "raised"
       THEN ui_pc' = "main" /\ tracks' = <<>> /\ idx' = 0 /\ attempted' = <<>>
       ELSE IF ui_pc = "playlist"
       THEN idx' = idx + 1 /\ UNCHANGED <<ui_pc, tracks, attempted>>
       ELSE UNCHANGED <<ui_pc, tracks, idx, attempted>>
    /\ song_id' = 0 /\ song_name' = <<>> /\ artist_name' = <<>>
    /\ quality' = "" /\ detail_res' = Unset /\ song_info' = Unset
    /\ audio_res' = Unset /\ url' = <<>> /\ ext' = <<>> /\ filepath' = <<>>
    /\ written' = 0
    /\ outcome' = "" /\ calls' = <<>> /\ first_res' = Unset /\ lyrics_res' = Unset
    /\ fs0' = fs
    /\ UNCHANGED <<extVars, cfg, fs, ndl>>

(* ---------------------------- download_song --------------------------- *)
\* what every step of download_song leaves alone
Frame == UNCHANGED <<extVars, cfg, uiVars, ndl, argVars, fs0>>

\* lines 334-335: an exception inside the try block is logged
Caught == outcome' = "failed" /\ pc' = "ret"
\* a return of download_song with the log line `line`
Ends(line) == outcome' = line /\ pc' = "ret"

\* lines 246-249: output_dir.mkdir(parents=True, exist_ok=True), outside the try
Mkdir ==
    /\ pc = "mkdir"
    /\ \E ok \in BOOLEAN :
        IF ok THEN pc' = "config" /\ outcome' = outcome
        ELSE Ends("raised")
    /\ Frame
    /\ UNCHANGED <<fs, locVars, calls, first_res, lyrics_res>>

\* lines 253-268: read the configuration, adjust the quality
ReadConfig ==
    /\ pc = "config"
    /\ quality' = NegotiateQuality(cfg.quality, cfg.preferred_format)
    /\ pc' = "detail"
    /\ Frame
    /\ UNCHANGED <<fs, detail_res, song_info, audio_res, url, ext, filepath,
                   written, outcome, calls, first_res, lyrics_res>>

\* lines 271-276: descriptor resolution
GetDetail ==
    /\ pc = "detail"
    /\ calls' = Append(calls, "GetTrackDetail")
    /\ \E res \in DetailResponses(song_id) :
        IF Raised(res)
        THEN Caught /\ UNCHANGED <<detail_res, song_info>>
        ELSE /\ detail_res' = res
             /\ IF DetailOk(res)
                THEN IF res.songs = <<>>
                     THEN Caught /\ UNCHANGED song_info      \* IndexError
                     ELSE /\ song_info' = res.songs[1]
                          /\ pc' = "audio" /\ outcome' = outcome
                ELSE /\ song_info' = MockInfo(song_id, song_name, artist_name)
                     /\ pc' = "audio" /\ outcome' = outcome
    /\ Frame
    /\ UNCHANGED <<fs, written, quality, audio_res, url, ext, filepath, first_res, lyrics_res>>

\* lines 284-287: the first audio resolution call
GetAudio ==
    /\ pc = "audio"
    /\ calls' = Append(calls, IF cfg.use_download_api THEN "GetTrackAudio"
                              ELSE "GetTrackAudioV1")
    /\ \E res \in AudioResponses(song_id, IF cfg.use_download_api THEN "GetTrackAudio"
                                              ELSE "GetTrackAudioV1") :
        /\ first_res' = res
        /\ IF Raised(res)
           THEN Caught /\ UNCHANGED audio_res
           ELSE audio_res' = res /\ pc' = "fallback" /\ outcome' = outcome
    /\ Frame
    /\ UNCHANGED <<fs, written, quality, detail_res, song_info, url, ext, filepath,
                   lyrics_res>>

\* lines 289-292: the fallback call
Fallback ==
    /\ pc = "fallback"
    /\ IF WantFallback(audio_res, cfg.use_download_api)
       THEN /\ calls' = Append(calls, "GetTrackAudio")
            /\ \E res \in AudioResponses(song_id, "GetTrackAudio") :
                IF Raised(res)
                THEN Caught /\ UNCHANGED audio_res
                ELSE audio_res' = res /\ pc' = "select" /\ outcome' = outcome
       ELSE pc' = "select" /\ UNCHANGED <<audio_res, calls, outcome>>
    /\ Frame
    /\ UNCHANGED <<fs, written, quality, detail_res, song_info, url, ext, filepath, first_res, lyrics_res>>

\* lines 294-305: the outcome of the resolution, the url and the extension
Select ==
    /\ pc = "select"
    /\ IF NoAudio(audio_res)
       THEN Ends("no_audio") /\ UNCHANGED <<url, ext, first_res>>
       ELSE LET data == audio_res.data[1] IN
            /\ url' = data.url
            /\ IF ~Playable(data.url)
               THEN Ends("unplayable") /\ UNCHANGED <<ext, first_res>>
               ELSE /\ ext' = ExtOf(data.type) /\ pc' = "filename" /\ outcome' = outcome
                    /\ first_res' = Unset
    /\ Frame
    /\ UNCHANGED <<fs, written, quality, detail_res, song_info, audio_res, filepath,
                   calls, lyrics_res>>

\* The target opened for writing before the existence check.
FilenameMutant ==
    /\ pc = "filename"
    /\ filepath' = get_filename(cfg.template, song_info, ext)
    /\ fs' = Put(fs, filepath', NewFile)
    /\ IF SkipExisting(Exists(fs, filepath'), cfg.overwrite)
       THEN Ends("exists")
       ELSE pc' = "get" /\ outcome' = outcome
    /\ Frame
    /\ UNCHANGED <<quality, detail_res, song_info, audio_res, url, ext,
                   written, calls, first_res, lyrics_res>>
\* lines 307-312: the target path and the existence check
Filename ==
    /\ pc = "filename"
    /\ filepath' = get_filename(cfg.template, song_info, ext)
    /\ IF SkipExisting(Exists(fs, filepath'), cfg.overwrite)
       THEN Ends("exists")
       ELSE pc' = "get" /\ outcome' = outcome
    /\ Frame
    /\ UNCHANGED <<fs, quality, detail_res, song_info, audio_res, url, ext,
                   written, calls, first_res, lyrics_res>>

\* lines 314-315: the request for the audio body
GetBody ==
    /\ pc = "get"
    /\ calls' = Append(calls, "get")
    /\ \E ok \in BOOLEAN :
        IF ok THEN pc' = "open" /\ outcome' = outcome ELSE Caught
    /\ Frame
    /\ UNCHANGED <<fs, locVars, first_res, lyrics_res>>

\* line 316: open(filepath, "wb") creates or truncates the file
OpenFile ==
    /\ pc = "open"
    /\ \E ok \in BOOLEAN :
        IF ok THEN fs' = Put(fs, filepath, NewFile) /\ pc' = "write" /\ outcome' = outcome
        ELSE Caught /\ UNCHANGED fs
    /\ Frame
    /\ UNCHANGED <<locVars, calls, first_res, lyrics_res>>

\* lines 317-321: one chunk of the body is received and written; after the
\* last one the file is closed
WriteChunk ==
    /\ pc = "write" /\ written < BodyChunks
    /\ written' = written + 1
    /\ fs' = [fs EXCEPT ![filepath].complete = (written' = BodyChunks)]
    /\ pc' = IF written' = BodyChunks THEN "embed" ELSE "write"
    /\ Frame
    /\ UNCHANGED <<quality, detail_res, song_info, audio_res, url, ext, filepath,
                   outcome, calls, first_res, lyrics_res>>

\* line 317: iter_content raises; the exception is logged at line 335
TransferFault ==
    /\ pc = "write" /\ written < BodyChunks
    /\ Caught
    /\ Frame
    /\ UNCHANGED <<fs, locVars, calls, first_res, lyrics_res>>

\* lines 323-328: the cover fetch and embed_metadata
Embed ==
    /\ pc = "embed"
    /\ IF EmbedGuard(detail_res)
       THEN IF ~Has(song_info.al, "picUrl")
            THEN Caught /\ UNCHANGED <<fs, calls>>           \* KeyError
            ELSE \E net \in CoverResults, codec_ok \in BOOLEAN :
                    /\ fs' = embed_metadata(fs, filepath, song_info,
                                 download_cover(song_info.al.picUrl, net), codec_ok)
                    /\ calls' = calls \o <<"download_cover", "embed_metadata">>
                    /\ pc' = "lyrics" /\ outcome' = outcome
       ELSE pc' = "lyrics" /\ UNCHANGED <<fs, calls, outcome>>
    /\ Frame
    /\ UNCHANGED <<locVars, first_res, lyrics_res>>

\* lines 330-332 and the end of the try block: lyrics, then the file is saved
Lyrics ==
    /\ pc = "lyrics"
    /\ IF cfg.download_lyrics
       THEN /\ calls' = Append(calls, "download_lyrics")
            /\ \E res \in LyricsResponses, io_ok \in BOOLEAN :
                 /\ fs' = download_lyrics(fs, filepath, res, io_ok)
                 /\ lyrics_res' = [res |-> res, io_ok |-> io_ok]
       ELSE UNCHANGED <<fs, calls, lyrics_res>>
    /\ Ends("saved")
    /\ Frame
    /\ UNCHANGED <<locVars, first_res>>

(* ---------------------------- session store --------------------------- *)
pipeVars == <<cfg, fs, uiVars, ndl, pc, argVars, locVars, outcome, calls,
              first_res, fs0, lyrics_res>>
\* what the session operations and the login menus leave alone
SessFrame == UNCHANGED <<pipeVars, fnVars, netVars>>

\* A process is launched with some session file left by earlier runs.
InitSession ==
    /\ cfg = DefaultConfig /\ InitPipe /\ InitFnIdle /\ InitNetIdle
    /\ session_file \in SessionFiles /\ session = NewSession
    /\ sess_pc = "start" /\ op = "" /\ op_result = "none"
    /\ last_change = IF session_file = NoFile THEN "none" ELSE "login"
    /\ save_failed = FALSE /\ load_failed = FALSE
    /\ qr_code = 0 /\ polls = 0 /\ saves = 0 /\ login_res = Unset

\* MusicManager.__init__, lines 19-21: load_session has returned
Start ==
    /\ sess_pc = "start"
    /\ \E readable \in BOOLEAN :
         LET r == load_session(session_file, session, readable)
         IN  session' = r.session /\ load_failed' = r.failed
    /\ sess_pc' = "loaded" /\ op' = "load_session" /\ op_result' = "none"
    /\ save_failed' = FALSE
    /\ UNCHANGED <<session_file, last_change, qr_code, polls, saves, login_res>>
    /\ SessFrame

\* MusicManager.__init__, line 22: configure_session; the manager is built
Configure ==
    /\ sess_pc = "loaded"
    /\ session' = configure_session(session)
    /\ sess_pc' = "main" /\ op' = "init"
    /\ UNCHANGED <<session_file, op_result, last_change, save_failed, load_failed,
                   qr_code, polls, saves, login_res>>
    /\ SessFrame

\* a login the service accepted: lines 63-66 and 78-80
Accepted(u, io_ok) ==
    /\ session' = LoggedIn(session, u)
    /\ session_file' = save_session(session_file, session', io_ok)
    /\ save_failed' = ~io_ok
    /\ op_result' = "true" /\ last_change' = "login"
\* The session is saved before the answer is looked at.
RejectedMutant ==
    /\ op_result' = "false" /\ save_failed' = FALSE
    /\ session_file' = DumpSessionAsString(session)
    /\ UNCHANGED <<session, last_change>>
\* a login that returns False: lines 67-73 and 82-84
Rejected ==
    /\ op_result' = "false" /\ save_failed' = FALSE
    /\ UNCHANGED <<session, session_file, last_change>>

\* UI.run line 24 and menu_login_phone: login_phone, lines 60-73
menu_login_phone ==
    /\ sess_pc = "main" /\ ~is_logged_in(session_file)
    /\ op' = "login_phone"
    /\ \E res \in CellphoneResponses, io_ok \in BOOLEAN :
         /\ login_res' = res
         /\ IF Raised(res) THEN Rejected
            ELSE IF res.code = 200 THEN Accepted("phone", io_ok)
            ELSE Rejected
    /\ load_failed' = FALSE
    /\ UNCHANGED <<sess_pc, qr_code, polls, saves>>
    /\ SessFrame

\* UI.run line 24 and menu_login_anon: login_anonymous, lines 75-84
menu_login_anon ==
    /\ sess_pc = "main" /\ ~is_logged_in(session_file)
    /\ op' = "login_anonymous"
    /\ \E res \in AnonymousResponses, io_ok \in BOOLEAN :
         /\ login_res' = res
         /\ IF Raised(res) THEN Rejected ELSE Accepted("anon", io_ok)
    /\ load_failed' = FALSE
    /\ UNCHANGED <<sess_pc, qr_code, polls, saves>>
    /\ SessFrame

\* menu_login_qr, lines 144-148: login_qr_get_key has no handler, so a fault
\* or a response without "unikey" leaves menu_login_qr as an exception that
\* UI.run logs (line 58)
menu_login_qr ==
    /\ sess_pc = "main" /\ ~is_logged_in(session_file)
    /\ op' = "login_qr_get_key"
    /\ \E res \in UnikeyResponses :
         IF Raised(res) \/ ~Has(res, "unikey")
         THEN op_result' = "raised" /\ sess_pc' = "main"
         ELSE op_result' = "key" /\ sess_pc' = "qr"
    /\ qr_code' = 0 /\ polls' = 0 /\ saves' = 0
    /\ save_failed' = FALSE /\ load_failed' = FALSE
    /\ UNCHANGED <<session, session_file, last_change, login_res>>
    /\ SessFrame

\* menu_login_qr, lines 150-164: one turn of the polling loop
QrPoll ==
    /\ sess_pc = "qr" /\ polls < MaxPolls
    /\ op' = "login_qr_check" /\ polls' = polls + 1
    /\ \E res \in QrResponses, io_ok \in BOOLEAN :
         IF Raised(res)
         THEN /\ op_result' = "raised" /\ sess_pc' = "main" /\ qr_code' = 0
              /\ save_failed' = FALSE
              /\ UNCHANGED <<session, session_file, last_change, saves>>
         ELSE /\ op_result' = "code" /\ qr_code' = res.code
              /\ sess_pc' = IF QrLeaves(res.code) THEN "main" ELSE "qr"
              /\ IF res.code = 803
                 THEN /\ session' = LoggedIn(session, "qr")
                      /\ session_file' = save_session(session_file, session', io_ok)
                      /\ save_failed' = ~io_ok
                      /\ saves' = saves + 1 /\ last_change' = "login"
                 ELSE /\ save_failed' = FALSE
                      /\ UNCHANGED <<session, session_file, last_change, saves>>
    /\ load_failed' = FALSE /\ UNCHANGED login_res
    /\ SessFrame

\* menu_logout and logout, lines 86-98
menu_logout ==
    /\ sess_pc = "main" /\ is_logged_in(session_file)
    /\ \E confirm \in BOOLEAN, unlink_ok \in BOOLEAN :
         IF ~confirm
         THEN UNCHANGED <<op, op_result, session, session_file, last_change,
                          save_failed, load_failed>>
         ELSE /\ op' = "logout" /\ save_failed' = FALSE /\ load_failed' = FALSE
              /\ IF unlink_ok
                 THEN /\ session_file' = NoFile
                      /\ session' = configure_session(NewSession)
                      /\ op_result' = "true" /\ last_change' = "logout"
                 ELSE /\ op_result' = "false"
                      /\ UNCHANGED <<session, session_file, last_change>>
    /\ UNCHANGED <<sess_pc, qr_code, polls, saves, login_res>>
    /\ SessFrame

\* The process ends (UI.run: "Exit" at line 40, Ctrl+C at lines 54-57) and
\* is launched again: the session in memory is gone, the file stays.
Relaunch ==
    /\ sess_pc \in {"main", "qr"}
    /\ sess_pc' = "start" /\ session' = NewSession
    /\ UNCHANGED <<session_file, op, op_result, last_change, save_failed,
                   load_failed, qr_code, polls, saves, login_res>>
    /\ SessFrame

(* ------------------------- functions on their own --------------------- *)
\* what applying a function leaves alone
FnFrame == UNCHANGED <<pipeVars, sessVars, netVars, arg>>

\* get_filename is handed a descriptor whose title, artist and album are
\* any string.
InitSanitize ==
    /\ cfg = DefaultConfig /\ InitPipe /\ InitSessionIdle /\ InitNetIdle
    /\ \E str \in Strings :
         arg = [name |-> str, ar |-> <<[name |-> str]>>, al |-> [name |-> str], id |-> 1]
    /\ result = Unset

\* get_filename, lines 226-228: the three sanitized fields
Sanitize ==
    /\ result = Unset
    /\ result' = [title |-> safe_title(arg), artists |-> safe_artists(arg),
                  album |-> safe_album(arg)]
    /\ FnFrame

NextSanitize == Sanitize

\* the prompt of menu_search is given any input
InitParse ==
    /\ cfg = DefaultConfig /\ InitPipe /\ InitSessionIdle /\ InitNetIdle
    /\ arg \in Inputs /\ result = Unset

\* menu_search, lines 88-111: parse_url and the branch chosen from its value
ParseUrl ==
    /\ result = Unset
    /\ result' = [parsed |-> parse_url(arg), handled |-> Handling(parse_url(arg))]
    /\ FnFrame

NextParse == ParseUrl

(* ---------------------------- retry adapter --------------------------- *)
\* a call through the mounted adapter is about to be sent
InitRetry ==
    /\ cfg = DefaultConfig /\ InitPipe /\ InitSessionIdle /\ InitFnIdle
    /\ statuses = <<>> /\ sleeps = <<>> /\ net_pc = "send"

\* One attempt of the call: a status outside the forcelist ends it; a status
\* of the forcelist spends a retry and, unless the retries are spent, is
\* followed by a sleep and one more attempt.
Send ==
    /\ net_pc = "send"
    /\ \E st \in ServerStatuses :
         /\ statuses' = Append(statuses, st)
         /\ IF st \notin StatusForcelist
            THEN net_pc' = "done" /\ UNCHANGED sleeps
            ELSE IF Exhausted(Len(statuses'))
            THEN net_pc' = "error" /\ UNCHANGED sleeps
            ELSE net_pc' = "send" /\ sleeps' = Append(sleeps, Backoff(Len(statuses')))
    /\ UNCHANGED <<pipeVars, sessVars, fnVars>>

NextRetry == Send

NextSession ==
    \/ Start \/ Configure \/ menu_login_phone \/ menu_login_anon \/ menu_login_qr
    \/ QrPoll \/ menu_logout \/ Relaunch

Next ==
    \/ SelectSearch \/ Exit \/ CancelSearch
    \/ EnterPlaylist \/ PlaylistTrackStep \/ PlaylistDone
    \/ EnterSongUrl \/ EnterKeyword \/ Return
    \/ Mkdir \/ ReadConfig \/ GetDetail \/ GetAudio \/ Fallback \/ Select
    \/ Filename \/ GetBody \/ OpenFile \/ WriteChunk \/ TransferFault
    \/ Embed \/ Lyrics

Spec == Init /\ [][Next]_vars
SpecQuality == InitQuality /\ [][Next]_vars
SpecTemplate == InitTemplate /\ [][Next]_vars
SpecSanitize == InitSanitize /\ [][NextSanitize]_vars
SpecParse == InitParse /\ [][NextParse]_vars
SpecRetry == InitRetry /\ [][NextRetry]_vars
SpecSession == InitSession /\ [][NextSession]_vars

(* ------------------------------- claims ------------------------------- *)
Count(name) == Cardinality({i \in 1..Len(calls) : calls[i] = name})
Called(name) == Count(name) > 0
\* a resolution response whose stream entry has a null or empty url
EmptyUrl(res) == Has(res, "code") /\ ~NoAudio(res) /\ res.data[1].url = NoUrl
\* every resolution response of this download_song had an empty url: the
\* only call made (audio_res is its response), or both calls
ResolutionCalls == Count("GetTrackAudio") + Count("GetTrackAudioV1")
AllUrlsEmpty ==
    EmptyUrl(audio_res) /\ (ResolutionCalls = 1 \/ EmptyUrl(first_res))
\* a legacy response that is an error code, empty data or an empty url
LegacyUnresolved(res) == Has(res, "code") /\ (NoAudio(res) \/ EmptyUrl(res))
\* the track-detail lookup was made and failed
DetailFailed ==
    /\ Called("GetTrackDetail")
    /\ \/ ~Has(detail_res, "code")
       \/ detail_res.code # 200
       \/ ~Has(detail_res, "songs")
       \/ detail_res.songs = <<>>
Degraded == song_info = MockInfo(song_id, song_name, artist_name)
TransferComplete == pc \in {"embed", "lyrics", "ret"} /\ written = BodyChunks
LyricsStageRan == cfg.download_lyrics => Called("download_lyrics")

\* C1: with use_download_api false, a legacy resolution that returned an
\* error code, empty data or an entry with an empty url is followed by exactly
\* one standard-API call before the outcome is decided (Select); with
\* use_download_api true the first resolution call is the standard-API one
\* and the legacy endpoint is never called.
C1_FallbackTriedOnce ==
    /\ (pc = "select" /\ ~cfg.use_download_api /\ LegacyUnresolved(first_res))
          => Count("GetTrackAudio") = 1
    /\ (cfg.use_download_api /\ Len(calls) >= 2)
          => calls[2] = "GetTrackAudio" /\ ~Called("GetTrackAudioV1")

\* C2: when every resolution endpoint answers with an empty url, download_song
\* ends as Skipped("unplayable") without raising, makes no request for the
\* audio body and leaves the files as they were.
C2_UnplayableSkips ==
    (pc = "ret" /\ AllUrlsEmpty)
       => outcome = "unplayable" /\ ~Called("get") /\ fs = fs0
C2_Witness ==
    /\ pc = "ret" /\ AllUrlsEmpty
    /\ outcome = "unplayable" /\ fs0 # NoFiles

\* C3: when overwrite is false and a file exists at the target path,
\* download_song makes no request for the audio body, ends as
\* Skipped("exists") and leaves the files as they were.
C3_ExistingSkipped ==
    (pc = "ret" /\ filepath # <<>> /\ Exists(fs0, filepath) /\ ~cfg.overwrite)
       => outcome = "exists" /\ ~Called("get") /\ fs = fs0
C3_Witness ==
    /\ pc = "ret" /\ filepath # <<>> /\ Exists(fs0, filepath) /\ ~cfg.overwrite
    /\ outcome = "exists"

\* C4: download_song never raises to its caller: it always ends with one of
\* the logged outcomes Saved, Skipped or Failed.
C4_NeverRaises ==
    pc = "ret" => outcome \in {"saved", "exists", "unplayable", "no_audio", "failed"}

\* C5: a transfer that fails after some chunks were written leaves no file at
\* the target path.
C5_NoPartialFile ==
    (pc = "ret" /\ outcome = "failed" /\ written >= 1 /\ written < BodyChunks)
       => ~Exists(fs, filepath)

\* C6: however the track-detail lookup fails, the degraded descriptor is
\* adopted and download_song goes on to audio resolution.
C6_DetailNeverFatal ==
    (pc = "ret" /\ DetailFailed)
       => Degraded /\ (Called("GetTrackAudio") \/ Called("GetTrackAudioV1"))

\* C7: after a completed transfer the metadata stage runs exactly when the
\* descriptor was resolved; with the degraded descriptor no cover fetch and
\* no embed is attempted, the lyrics stage runs and the outcome is Saved.
C7_EmbedIffResolved ==
    (pc = "ret" /\ TransferComplete)
       => IF Degraded
          THEN /\ ~Called("download_cover") /\ ~Called("embed_metadata")
               /\ LyricsStageRan /\ outcome = "saved"
          ELSE Called("download_cover") /\ Called("embed_metadata")

\* C8: once the transfer is complete, nothing that goes wrong in the metadata
\* stage changes the result: the complete audio file is at the target path,
\* the outcome is Saved and the lyrics stage has run.
C8_MetadataFailureHarmless ==
    (pc = "ret" /\ TransferComplete /\ EmbedGuard(detail_res))
       => /\ Exists(fs, filepath) /\ fs[filepath].complete
          /\ outcome = "saved" /\ LyricsStageRan

\* C9: the negotiated quality is exhigh for lossless/hires with mp3, lossless
\* for standard/exhigh with flac, and the configured quality otherwise.
Negotiated == pc = "detail" \/ Called("GetTrackDetail")
C9_QualityTable ==
    Negotiated
       => quality =
            CASE cfg.preferred_format = "mp3" /\ cfg.quality \in {"lossless", "hires"}
                    -> "exhigh"
              [] cfg.preferred_format = "flac" /\ cfg.quality \in {"standard", "exhigh"}
                    -> "lossless"
              [] OTHER -> cfg.quality
C9_Witness ==
    /\ pc = "detail" /\ cfg.preferred_format = "flac" /\ cfg.quality = "exhigh"
    /\ quality = "lossless"

\* C10: the loop over a playlist is left only after download_song was called
\* for every track of the playlist, and the front-end keeps running.
C10_PlaylistCompletes ==
    [][(ui_pc = "playlist" /\ ui_pc' # "playlist")
          => (Len(attempted) = Len(tracks) /\ ui_pc' \in {"search", "main"})]_vars

\* the login operations of the session store
LoginOps == {"login_phone", "login_anonymous", "login_qr_get_key", "login_qr_check"}
\* a process launched now finds a session to restore
Restorable ==
    LET r == load_session(session_file, NewSession, TRUE)
    IN  ~r.failed /\ r.session.user \in Users

\* C11: between operations, and unless the session file was damaged from
\* outside, is_logged_in is true exactly when the last login or logout that
\* reported success was a login, and then the session file holds a session
\* from which a newly launched process restores the login.
C11_LoginStatePersisted ==
    (sess_pc = "main" /\ session_file # Corrupt)
       => /\ is_logged_in(session_file) <=> last_change = "login"
          /\ is_logged_in(session_file) => Restorable

\* C12: when save_session or load_session caught a failure in the last
\* operation, is_logged_in reports false.
C12_FailureMeansNoSession ==
    (sess_pc = "main" /\ (save_failed \/ load_failed))
       => ~is_logged_in(session_file)

\* C13: no login operation of the session store (login_phone,
\* login_anonymous, login_qr_get_key, login_qr_check) raises to its caller.
C13_LoginNeverRaises ==
    op \in LoginOps => op_result # "raised"

\* C14: a poll is made only inside the loop; a poll answered Pending (801) or
\* Scanned (802) stays in the loop and saves nothing; a poll answered Expired
\* (800) leaves the loop and saves nothing; a poll answered Confirmed (803)
\* leaves the loop with the one save_session call of this login.
C14_QrStateMachine ==
    [][/\ (polls' = polls + 1) => sess_pc = "qr"
       /\ (polls' = polls + 1 /\ op_result' = "code")
             => /\ qr_code' \in {801, 802}
                     => sess_pc' = "qr" /\ saves' = 0
                        /\ session_file' = session_file
                /\ qr_code' = 800
                     => sess_pc' = "main" /\ saves' = 0
                        /\ session_file' = session_file
                /\ qr_code' = 803
                     => sess_pc' = "main" /\ saves' = 1]_vars
C14_Witness ==
    /\ sess_pc = "main" /\ op = "login_qr_check" /\ polls = MaxPolls
    /\ qr_code = 803 /\ saves = 1 /\ session_file = DumpSessionAsString(session)

\* the fixed fallback form "<sanitized title> - <sanitized artists>.<ext>"
FallbackStem ==
    re_sub(song_info.name) \o Sep \o re_sub(Join(ArtistNames(song_info.ar)))
FallbackName == FallbackStem \o <<".">> \o ext
\* the template as str.format renders it, or the fallback
RenderedStem ==
    IF FormatOk(cfg.template) THEN Format(cfg.template, song_info) ELSE FallbackStem
\* the type the resolved stream reports
StreamType == audio_res.data[1].type
\* the number of "." in a file name: its extension suffixes (PurePath.suffixes)
Dots(s) == Cardinality({i \in 1..Len(s) : s[i] = "."})

\* C15: with a template that str.format rejects (unknown placeholder,
\* unbalanced brace) the target name is the fallback form, download_song goes
\* on to request the audio body, and a failure can only come from the
\* transfer or later.
C15_FallbackName ==
    (filepath # <<>> /\ ~FormatOk(cfg.template))
       => /\ filepath = FallbackName
          /\ pc = "ret" => (outcome = "exists" \/ Called("get"))
C15_Witness ==
    /\ pc = "ret" /\ outcome = "saved" /\ cfg.template = UnknownTemplate
    /\ song_id = 2 /\ filepath = FallbackName
    /\ Exists(fs, filepath) /\ fs[filepath].complete

\* C16 as stated: for every template the file name has exactly one
\* extension suffix, and it is the container extension.
C16_SingleSuffix ==
    filepath # <<>> => Dots(filepath) = 1 /\ Suffix(filepath) = <<".">> \o ext
\* C16: the file name is the rendered name (which may itself contain dots
\* that come from the template) followed by "." and the container extension,
\* appended once, so its last suffix is the container extension; the
\* extension is the type the resolved stream reports, or mp3 when it reports
\* none.
C16_ExtAppendedOnce ==
    filepath # <<>>
       => /\ Suffix(filepath) = <<".">> \o ext
          /\ WithSuffix(filepath, <<>>) = RenderedStem
          /\ ext = IF StreamType = <<>> THEN Mp3 ELSE StreamType
C16_Witness ==
    /\ pc = "ret" /\ outcome = "saved" /\ cfg.template = DottedTemplate
    /\ StreamType = <<>> /\ Suffix(filepath) = <<".">> \o Mp3

Clean(str) == \A i \in 1..Len(str) : str[i] \notin ForbiddenChars
Sanitized == result # Unset /\ Has(result, "title")

\* C17: stripping the characters \ / * ? : " < > | from an already stripped
\* string changes nothing, and the sanitized title, artists and album
\* contain none of those characters.
C17_SanitizeIdempotent ==
    Sanitized
       => /\ re_sub(re_sub(arg.name)) = re_sub(arg.name)
          /\ \A k \in {"title", "artists", "album"} :
                 re_sub(result[k]) = result[k] /\ Clean(result[k])
C17_Witness ==
    /\ Sanitized /\ arg.name = <<"?", "/">> /\ result.title = <<>>

\* the lyrics file next to the audio file: same base name, suffix .lrc
LrcPath == WithSuffix(filepath, <<".", "l", "r", "c">>)
\* the lyric text the service returned to this download_song, if any
LyricText ==
    IF lyrics_res = Unset THEN <<>>
    ELSE IF Raised(lyrics_res.res) \/ lyrics_res.res.code # 200 THEN <<>>
    ELSE IF Has(lyrics_res.res, "lrc") THEN lyrics_res.res.lrc.lyric
    ELSE <<>>
LrcUntouched ==
    /\ Exists(fs, LrcPath) <=> Exists(fs0, LrcPath)
    /\ Exists(fs, LrcPath) => fs[LrcPath] = fs0[LrcPath]

\* C18: after a Saved download with download_lyrics on, the lyrics call was
\* made, and the .lrc file next to the audio file holds the returned text
\* when the service returned non-empty text and the file could be written;
\* with no text, an error code, a raising call or a failing write the .lrc
\* path is as it was.  With download_lyrics off no lyrics call is made.
C18_LyricsFile ==
    (pc = "ret" /\ outcome = "saved")
       => IF cfg.download_lyrics
          THEN /\ Count("download_lyrics") = 1
               /\ IF LyricText # <<>> /\ lyrics_res.io_ok
                  THEN Exists(fs, LrcPath) /\ fs[LrcPath] = [lyric |-> LyricText]
                  ELSE LrcUntouched
          ELSE ~Called("download_lyrics") /\ LrcUntouched
C18_Witness ==
    /\ pc = "ret" /\ outcome = "saved" /\ cfg.download_lyrics
    /\ LyricText # <<>> /\ ~Exists(fs0, LrcPath) /\ Exists(fs, LrcPath)
    /\ Exists(fs, filepath) /\ fs[filepath].complete

Parsed == result # Unset /\ Has(result, "parsed")
\* C20: an input that is not a music.163.com URL gives (None, None) and is
\* handled as a keyword; a music.163.com URL of the shape .../song?id=X gives
\* ("song", X) and one of the shape .../playlist?id=X gives ("playlist", X),
\* whatever else the URL contains.
C20_UrlClassified ==
    Parsed
       => /\ arg.host # "music.163.com"
               => result.parsed = <<None, None>> /\ result.handled = "keyword"
          /\ (arg.host = "music.163.com" /\ arg.id # "" /\ arg.route = "/song")
               => result.parsed = <<"song", arg.id>>
          /\ (arg.host = "music.163.com" /\ arg.id # "" /\ arg.route = "/playlist")
               => result.parsed = <<"playlist", arg.id>>

\* C21: once MusicManager is constructed, whatever logins, logouts and
\* relaunches follow, the current session has the retry adapter mounted
\* (lines 29-30 mount it for http:// and https:// together); and when
\* load_session returns from an existing session file, the adapter is mounted
\* on the current session whether the file could be read and decoded or not.
C21_AdapterMounted ==
    /\ sess_pc \in {"main", "qr"} => session.mounted
    /\ (sess_pc = "loaded" /\ session_file # NoFile) => session.mounted
C21_Witness ==
    /\ sess_pc = "main" /\ op = "init" /\ load_failed /\ session_file = Corrupt
    /\ session.mounted /\ session.user = ""

\* download_song returned without requesting the audio body: the file
\* exists, the url is empty, no audio entry, or a failure before the request
EndedBeforeTransfer ==
    /\ pc = "ret"
    /\ \/ outcome \in {"exists", "unplayable", "no_audio"}
       \/ outcome = "failed" /\ ~Called("get")
PostTransferCalls == {"download_cover", "embed_metadata", "download_lyrics"}

\* C22: a download_song that ends as exists, unplayable or no audio (or
\* fails before the body request) leaves every file as it was and makes no
\* cover fetch, no embed_metadata call and no lyrics call; those calls are
\* made only once the whole body is in the target file.
C22_NoEffectWithoutSave ==
    /\ EndedBeforeTransfer
          => /\ fs = fs0 /\ lyrics_res = Unset
             /\ \A c \in PostTransferCalls : ~Called(c)
    /\ (\E c \in PostTransferCalls : Called(c))
          => /\ written = BodyChunks
             /\ Exists(fs, filepath) /\ fs[filepath].complete
C22_Witness ==
    /\ EndedBeforeTransfer /\ outcome = "exists" /\ cfg.download_lyrics
    /\ fs0[filepath].tags # <<>> /\ fs = fs0

\* the service did not accept the login: a fault or a code other than 200
FailedLogin(res) == Raised(res) \/ res.code # 200

\* C23: a login_phone or login_anonymous whose call raised, or was answered
\* with a code other than 200, returns False and leaves the session file,
\* and so is_logged_in, as it was.
C23_FailedLoginNoChange ==
    [][(/\ sess_pc = "main" /\ sess_pc' = "main"
        /\ op' \in {"login_phone", "login_anonymous"}
        /\ FailedLogin(login_res'))
          => /\ op_result' = "false"
             /\ session_file' = session_file
             /\ is_logged_in(session_file') <=> is_logged_in(session_file)]_vars
C23_Witness ==
    /\ sess_pc = "main" /\ op = "login_phone" /\ login_res = [code |-> 400]
    /\ op_result = "false" /\ last_change = "logout" /\ ~is_logged_in(session_file)

====
